---------------------------- MODULE Spec2Model ----------------------------
(***************************************************************************)
(* Model of the concurrent download-and-merge pipeline of the Snapchat     *)
(* memories downloader (src/src/download.py, zip_processor.py, overlay.py, *)
(* memory.py, metadata.py, stats.py, config.py, args.py, main.py).         *)
(*                                                                         *)
(* The program runs on one asyncio event loop: the code between two        *)
(* awaits runs without interleaving, so each action below is the code      *)
(* that runs from one suspension point of a task to its next one.          *)
(***************************************************************************)
EXTENDS Integers, Sequences, FiniteSets, TLC

\* ------------------------------------------------------------------ bounds
NumItems == 2
MaxConcurrent == 2

Items == 1..NumItems

\* ----------------------------------------------------------- config values
OverlayMode == {"none", "with", "both"}
OverlayNaming == {"single-folder", "separate-folders"}
MediaType == {"image", "video"}

\* A directory is a sequence of components, a component a sequence of tokens
WITH_OVERLAYS_DIR == <<"with_overlays">>
WITHOUT_OVERLAYS_DIR == <<"without_overlays">>
overlays_dir == <<"overlays">>
output_dir == << <<"downloads">> >>
filename_prefix == ""

\* The attributes of the config module once args.py has applied the
\* arguments: those config.py defines and those args.py 89-98 assigns
ConfigAttributes ==
    {"ffmpeg_path", "ffmpeg_available", "overlay_mode", "overlay_naming",
     "WITH_OVERLAYS_DIR", "WITHOUT_OVERLAYS_DIR", "output_dir",
     "filename_prefix", "max_concurrent", "add_exif", "skip_existing",
     "ocr_metadata", "save_overlays_only"}

\* The configurations setup_config can produce: the naming mode and the
\* copy-overlays flag are only read under overlay mode both (and
\* --copy-overlays is rejected under any other mode), so the other modes are
\* drawn with their defaults.
Configs ==
    { [overlay_mode |-> om, overlay_naming |-> on, max_concurrent |-> n,
       skip_existing |-> se, save_overlays_only |-> so] :
        om \in OverlayMode, on \in OverlayNaming, n \in 0..MaxConcurrent,
        se \in BOOLEAN, so \in BOOLEAN }

setup_config ==
    { c \in Configs :
        /\ (c.save_overlays_only => c.overlay_mode = "both")
        /\ (c.overlay_mode # "both" => c.overlay_naming = "separate-folders") }

\* -------------------------------------------------------------------- paths
\* A path is a directory and a file name; a file name is a sequence of
\* tokens, the last one being the extension.
None == [dir |-> <<>>, name |-> <<>>]

Join(dir, name) == [dir |-> dir, name |-> name]

ExtTokens == {".jpg", ".mp4", ".zip", ".png", ".webp"}

\* Path.stem: the name without its last suffix.
Stem(name) ==
    IF Len(name) > 0 /\ name[Len(name)] \in ExtTokens
    THEN SubSeq(name, 1, Len(name) - 1)
    ELSE name

\* str.rsplit('.', 1)[0]
RsplitDot(name) ==
    IF \E k \in 1..Len(name) : name[k] \in ExtTokens
    THEN LET k == CHOOSE j \in 1..Len(name) :
                    /\ name[j] \in ExtTokens
                    /\ \A l \in (j+1)..Len(name) : name[l] \notin ExtTokens
         IN  SubSeq(name, 1, k - 1)
    ELSE name

\* str.replace("_overlayed", "")
ReplaceOverlayed(name) == SelectSeq(name, LAMBDA t : t # "_overlayed")

\* ------------------------------------------------------------------- dates
\* An aware datetime: the wall-clock reading and the UTC offset of its zone
\* (both in the same unit); the instant it denotes is wall - off.
timezone_utc == 0

\* Memory.parse_date: the export's strings are UTC readings
parse_date(v) == [wall |-> v, off |-> timezone_utc]

\* datetime.astimezone: the same instant read in another zone
astimezone(dt, off) == [wall |-> (dt.wall - dt.off) + off, off |-> off]

\* datetime.timestamp: the instant of an aware datetime
timestamp(dt) == dt.wall - dt.off

\* str(datetime): the wall-clock reading followed by the offset
str(dt) == <<dt.wall, dt.off>>

\* The offset of the zone found at the place where a record was captured
\* ("none": the record has no coordinates)
utcoffset(location) == IF location = "east" THEN 1 ELSE 0

\* memory.py 178-211: with a location the date is re-expressed in the zone
\* of the location
apply_timezone_to_date(dt, location) ==
    IF location = "none" THEN dt ELSE astimezone(dt, utcoffset(location))

\* dt.strftime('%Y-%m-%d_%H-%M-%S'): the wall-clock reading is what is printed
strftime(dt) ==
    <<"2020-01-01_00-00-01", "2020-01-01_00-00-02",
      "2020-01-01_00-00-03", "2020-01-01_00-00-04",
      "2020-01-01_00-00-05">>[dt.wall]

\* f"_v{occurrence}"
VersionToken(occurrence) == <<"_v1", "_v2", "_v3", "_v4">>[occurrence]

get_filename(m, has_overlay, occurrence) ==
    (IF filename_prefix # "" THEN <<filename_prefix, "_">> ELSE <<>>)
    \o <<strftime(astimezone(m.date, timezone_utc))>>
    \o (IF occurrence >= 1 THEN <<VersionToken(occurrence)>> ELSE <<>>)
    \o (IF has_overlay THEN <<"_overlayed">> ELSE <<>>)
    \o <<IF m.media_type = "image" THEN ".jpg" ELSE ".mp4">>

get_overlay_filename(m, occurrence) ==
    (IF filename_prefix # "" THEN <<filename_prefix, "_">> ELSE <<>>)
    \o <<strftime(astimezone(m.date, timezone_utc))>>
    \o (IF occurrence >= 1 THEN <<VersionToken(occurrence)>> ELSE <<>>)
    \o <<"_overlay", ".webp">>

\* --------------------------------------------------------------- filesystem
\* A filesystem maps the paths of its files to what they hold.
Exists(fs, p) == p \in DOMAIN fs

write_bytes(fs, p, data) ==
    [q \in (DOMAIN fs) \cup {p} |-> IF q = p THEN data ELSE fs[q]]

unlink(fs, p) == [q \in (DOMAIN fs) \ {p} |-> fs[q]]

rename(fs, p, np) ==
    [q \in ((DOMAIN fs) \ {p}) \cup {np} |-> IF q = np THEN fs[p] ELSE fs[q]]

\* ----------------------------------------------------------------- records
Stats ==
    [downloaded |-> 0, skipped |-> 0, failed |-> 0, overlay_failed |-> 0,
     mb |-> 0,
     total_images |-> 0, total_videos |-> 0,
     images_with_overlay |-> 0, images_without_overlay |-> 0,
     videos_with_overlay |-> 0, videos_without_overlay |-> 0,
     extra_images_without_overlay |-> 0, extra_videos_without_overlay |-> 0]

\* memory.py 36-54 and 116-124: the date is parsed as UTC and then
\* re-expressed in the zone of the location
Memory(date, media_type, location) ==
    [date |-> apply_timezone_to_date(parse_date(date), location),
     media_type |-> media_type, occurrence |-> 1,
     path_with_overlay |-> None, path_without_overlay |-> None]


\* A file: what it holds and its modification time (0: the time of writing,
\* otherwise a capture instant set by os.utime).
File(data) == [data |-> data, mtime |-> 0]

\* ------------------------------------------------------------ archive input
\* A retrieved archive: whether it parses as a ZIP, whether it has a "-main"
\* member and whether that decodes (image), and its "-overlay" member:
\* "none", "good", or "bad" (the raster library cannot decode it).
Archives ==
    { [valid |-> FALSE, main |-> FALSE, main_ok |-> FALSE, overlay |-> "none"],
      [valid |-> TRUE,  main |-> FALSE, main_ok |-> FALSE, overlay |-> "good"],
      [valid |-> TRUE,  main |-> TRUE,  main_ok |-> TRUE,  overlay |-> "none"],
      [valid |-> TRUE,  main |-> TRUE,  main_ok |-> TRUE,  overlay |-> "good"],
      [valid |-> TRUE,  main |-> TRUE,  main_ok |-> TRUE,  overlay |-> "bad"],
      [valid |-> TRUE,  main |-> TRUE,  main_ok |-> FALSE, overlay |-> "none"] }

NoArchive == [valid |-> FALSE, main |-> FALSE, main_ok |-> FALSE, overlay |-> "none"]

\* The names of the members of an archive (zf.filelist)
MainMember(m) == <<"media-main", IF m.media_type = "image" THEN ".jpg" ELSE ".mp4">>
OverlayMember == <<"media-overlay", ".png">>

filelist(z, m) ==
    (IF z.main THEN {MainMember(m)} ELSE {})
    \cup (IF z.overlay # "none" THEN {OverlayMember} ELSE {})

\* ------------------------------------------------------------------ context
\* The code of one task between two suspension points works on the shared
\* filesystem, the task's Memory and the shared Stats; raised says that an
\* exception is propagating, ev collects what happened to the item.
Ctx(f, m, s) ==
    [fs |-> f, m |-> m, stats |-> s, raised |-> FALSE, pending |-> FALSE, ev |-> {}]

Bump(s, field) == [s EXCEPT ![field] = @ + 1]

\* ------------------------------------------------------- memory.py: repair
\* Mutant: the repair leaves the paths and the files as they are
fix_paths_on_merge_failure_Nothing(c, overlay_mode) == c

fix_paths_on_merge_failure(c, overlay_mode) ==
    LET p == c.m.path_with_overlay IN
    IF overlay_mode = "both"
    THEN [c EXCEPT !.fs = IF p # None THEN unlink(c.fs, p) ELSE @,
                   !.m.path_with_overlay = None]
    ELSE IF overlay_mode = "with"
    THEN IF p # None /\ Exists(c.fs, p)
         THEN LET new_path == Join(p.dir, ReplaceOverlayed(p.name)) IN
              [c EXCEPT !.fs = rename(c.fs, p, new_path),
                        !.m.path_without_overlay = new_path,
                        !.m.path_with_overlay = None]
         ELSE c
    ELSE c

\* overlay.py 27-30 and 108-111: repair the paths, write the primary to the
\* without-overlay path and raise.  Writing through a path that is None
\* raises (AttributeError) before anything is written.
merge_failure(c, overlay_mode) ==
    LET c1 == fix_paths_on_merge_failure(c, overlay_mode)
        c2 == IF c1.m.path_without_overlay = None
              THEN c1
              ELSE [c1 EXCEPT
                      !.fs = write_bytes(c1.fs, c1.m.path_without_overlay, File("main"))]
    IN  [c2 EXCEPT !.raised = TRUE, !.ev = @ \cup {"composite_failed"}]

\* ------------------------------------------------------ overlay.py: images
merge_image_overlay(c, output_path, z, overlay_mode) ==
    IF ~z.main_ok
    THEN [c EXCEPT !.raised = TRUE, !.ev = @ \cup {"bad_main"}]
    ELSE IF z.overlay = "bad"
    THEN merge_failure(c, overlay_mode)
    ELSE [c EXCEPT !.fs = write_bytes(c.fs, output_path,
                     File(IF z.overlay = "good" THEN "composite" ELSE "flattened"))]


\* --------------------------------------------- zip_processor.py: decomposer
\* zip_processor.py 40-48 and 79: the destinations of the two renditions
overlay_memory_path(m, cfg) ==
    IF cfg.overlay_mode = "both" /\ cfg.overlay_naming = "separate-folders"
    THEN Join(output_dir \o <<WITH_OVERLAYS_DIR>>, get_filename(m, TRUE, m.occurrence))
    ELSE Join(output_dir, get_filename(m, TRUE, m.occurrence))

no_overlay_memory_path(m, cfg) ==
    IF cfg.overlay_naming = "separate-folders"
    THEN Join(output_dir \o <<WITHOUT_OVERLAYS_DIR>>, get_filename(m, FALSE, m.occurrence))
    ELSE Join(output_dir, get_filename(m, FALSE, m.occurrence))

\* zip_processor.py 50-51 and 80: the result paths are assigned before the
\* compositor runs.
set_result_paths(c, cfg) ==
    IF cfg.overlay_mode = "both"
    THEN [c EXCEPT !.m.path_with_overlay = overlay_memory_path(c.m, cfg),
                   !.m.path_without_overlay = no_overlay_memory_path(c.m, cfg)]
    ELSE [c EXCEPT !.m.path_with_overlay = overlay_memory_path(c.m, cfg)]

\* overlay.py 69-81 and 112-113: merge_video_overlay up to its first await.
\* Without an overlay the primary is written as it is; with one the external
\* process is started and the task suspends.
merge_video_overlay_begin(c, output_path, z) ==
    IF z.overlay = "none"
    THEN [c EXCEPT !.fs = write_bytes(c.fs, output_path, File("main"))]
    ELSE [c EXCEPT !.pending = TRUE]

\* Mutant: the extra copy is not counted
count_extra_Forgotten(s, img) == s

\* zip_processor.py 65-69: the extra copy of policy both is counted
count_extra(s, img) ==
    Bump(s, IF img THEN "extra_images_without_overlay" ELSE "extra_videos_without_overlay")

\* zip_processor.py 52-76 and 81-88: after the compositor returned. The
\* overlay copy reads config.overlays_dir, which is not an attribute of the
\* config module: the read raises AttributeError.
after_merge(c, z, cfg) ==
    LET img == c.m.media_type = "image"
        s1  == Bump(Bump(c.stats, IF img THEN "total_images" ELSE "total_videos"),
                    IF img THEN "images_with_overlay" ELSE "videos_with_overlay")
        c1  == [c EXCEPT !.stats = s1, !.ev = @ \cup {"decomposed"}]
        c2  == [c1 EXCEPT
                  !.fs = write_bytes(c1.fs, no_overlay_memory_path(c.m, cfg), File("main")),
                  !.stats = count_extra(s1, img)]
        c3  == IF cfg.save_overlays_only /\ z.overlay # "none"
               THEN IF "overlays_dir" \in ConfigAttributes
                    THEN [c2 EXCEPT
                            !.fs = write_bytes(c2.fs,
                                     Join(output_dir \o <<overlays_dir>>,
                                          get_overlay_filename(c.m, c.m.occurrence)),
                                     File("overlay"))]
                    ELSE [c2 EXCEPT !.raised = TRUE,
                                    !.ev = @ \cup {"attribute_error"}]
               ELSE c2
    IN  IF cfg.overlay_mode = "both" THEN c3 ELSE c1

\* zip_processor.py 91-120: the decomposer boundary
error_dir(m) ==
    output_dir \o << <<"error_zips">>, RsplitDot(get_filename(m, FALSE, m.occurrence)) >>

error_zip_path(m) ==
    Join(output_dir \o << <<"error_zips">> >>,
         RsplitDot(get_filename(m, FALSE, m.occurrence)) \o <<".zip">>)

RECURSIVE write_members(_, _, _)
write_members(fs, dir, names) ==
    IF names = {}
    THEN fs
    ELSE LET n == CHOOSE x \in names : TRUE IN
         write_members(write_bytes(fs, Join(dir, n), File("member")), dir, names \ {n})

\* Mutant: the failure is counted but nothing is saved for inspection
except_path_NoArtifacts(c, z) ==
    [c EXCEPT !.raised = FALSE,
              !.stats = Bump(c.stats, "overlay_failed"),
              !.ev = @ \cup {"overlay_failed"}]

except_path(c, z) ==
    [c EXCEPT !.raised = FALSE,
              !.stats = Bump(c.stats, "overlay_failed"),
              !.ev = @ \cup {"overlay_failed"},
              !.fs = IF z.valid
                     THEN write_members(c.fs, error_dir(c.m), filelist(z, c.m))
                     ELSE write_bytes(c.fs, error_zip_path(c.m), File("zip"))]

\* Mutant: the decomposer has no handler
process_zip_end_Uncaught(c, z, cfg) ==
    IF c.raised THEN c ELSE after_merge(c, z, cfg)

\* process_zip_with_overlays from the point where the compositor has
\* returned or raised, or where an earlier statement of the try block raised
process_zip_end(c, z, cfg) ==
    IF c.raised
    THEN except_path(c, z)
    ELSE LET c1 == after_merge(c, z, cfg) IN
         IF c1.raised THEN except_path(c1, z) ELSE c1

\* zip_processor.py 24-34, 40-53 and 78-86: process_zip_with_overlays up to
\* the compositor; pending when the video compositor awaits the external
\* process.
process_zip_begin(c, z, cfg) ==
    IF ~z.valid
    THEN [c EXCEPT !.raised = TRUE, !.ev = @ \cup {"bad_zip"}]
    ELSE IF ~z.main
    THEN [c EXCEPT !.raised = TRUE, !.ev = @ \cup {"no_main"}]
    ELSE LET c1 == set_result_paths(c, cfg) IN
         IF c1.m.media_type = "image"
         THEN merge_image_overlay(c1, c1.m.path_with_overlay, z, cfg.overlay_mode)
         ELSE merge_video_overlay_begin(c1, c1.m.path_with_overlay, z)

process_zip_with_overlays(c, z, cfg) ==
    LET c1 == process_zip_begin([c EXCEPT !.ev = @ \cup {"decomposer"}], z, cfg) IN
    IF c1.pending THEN c1 ELSE process_zip_end(c1, z, cfg)

\* Mutant: the second attempt is made whether or not the overlay could be
\* re-encoded
ffmpeg_returned_RetriesAnyway(c, z, cfg, attempt, rc) ==
    IF rc = 0
    THEN [c EXCEPT !.pending = FALSE,
                   !.fs = write_bytes(c.fs, c.m.path_with_overlay, File("composite"))]
    ELSE IF attempt = 1
    THEN [c EXCEPT !.pending = TRUE, !.ev = @ \cup {"first_exit_nonzero"}]
    ELSE merge_failure([c EXCEPT !.pending = FALSE], cfg.overlay_mode)

\* overlay.py 84-111: the external process returned from an attempt.
\* attempt 1 failing starts the re-encode of the overlay and, when that
\* works, attempt 2; attempt 2 failing ends in the repair.
ffmpeg_returned(c, z, cfg, attempt, rc) ==
    IF rc = 0
    THEN [c EXCEPT !.pending = FALSE,
                   !.fs = write_bytes(c.fs, c.m.path_with_overlay, File("composite"))]
    ELSE IF attempt = 1 /\ z.overlay = "good"
    THEN [c EXCEPT !.pending = TRUE, !.ev = @ \cup {"first_exit_nonzero"}]
    ELSE merge_failure([c EXCEPT !.pending = FALSE],
                       cfg.overlay_mode)


\* ------------------------------------------------- metadata.py: the applier
add_exif == TRUE

\* metadata.py 219-238: nothing is done for a missing file, and nothing,
\* the modification time included, when EXIF writing is disabled.
apply_metadata_to_path(fs, file_path, m) ==
    IF ~Exists(fs, file_path) \/ ~add_exif
    THEN fs
    ELSE [fs EXCEPT ![file_path].mtime = timestamp(astimezone(m.date, timezone_utc))]

\* metadata.py 241-252
apply_metadata_and_timestamps(c) ==
    LET f1 == IF c.m.path_with_overlay # None
              THEN apply_metadata_to_path(c.fs, c.m.path_with_overlay, c.m)
              ELSE c.fs
        f2 == IF c.m.path_without_overlay # None
              THEN apply_metadata_to_path(f1, c.m.path_without_overlay, c.m)
              ELSE f1
    IN  [c EXCEPT !.fs = f2,
                  !.ev = @ \cup (IF c.m.path_with_overlay # None
                                 THEN {"applied_with"} ELSE {})
                           \cup (IF c.m.path_without_overlay # None
                                 THEN {"applied_without"} ELSE {})]

\* The applier is declared with two required parameters (memory, add_exif)
\* and download_memory calls it with one argument (memory): the call raises
\* TypeError before the body of the applier runs.
ApplierParameters == 2
CallArguments == 1

\* Mutant: the call matches the applier's signature
call_apply_metadata_Accepted(c) == apply_metadata_and_timestamps(c)

call_apply_metadata(c) ==
    IF CallArguments = ApplierParameters
    THEN apply_metadata_and_timestamps(c)
    ELSE [c EXCEPT !.raised = TRUE, !.ev = @ \cup {"type_error"}]

\* ------------------------------------------------ download.py: one item
\* What a GET can return: an error status, or a body with a content type.
Responses ==
    { [ok |-> FALSE, zip |-> FALSE, z |-> NoArchive],
      [ok |-> TRUE,  zip |-> FALSE, z |-> NoArchive] }
    \cup { [ok |-> TRUE, zip |-> TRUE, z |-> z] : z \in Archives }

\* len(content)
ContentLength(r) == IF r.zip THEN 2 ELSE 1

\* download.py 110-124: the direct write
direct_output_path(m, cfg) ==
    IF cfg.overlay_mode = "both" /\ cfg.overlay_naming = "separate-folders"
    THEN Join(output_dir \o <<WITHOUT_OVERLAYS_DIR>>, get_filename(m, FALSE, m.occurrence))
    ELSE Join(output_dir, get_filename(m, FALSE, m.occurrence))

\* Mutant: the variant counter is left out
direct_write_TotalOnly(c, cfg) ==
    LET output_path == direct_output_path(c.m, cfg)
        img == c.m.media_type = "image"
    IN  [c EXCEPT
           !.fs = write_bytes(c.fs, output_path, File("body")),
           !.m.path_without_overlay = output_path,
           !.stats = Bump(c.stats, IF img THEN "total_images" ELSE "total_videos"),
           !.ev = @ \cup {"direct"}]

direct_write(c, cfg) ==
    LET output_path == direct_output_path(c.m, cfg)
        img == c.m.media_type = "image"
    IN  [c EXCEPT
           !.fs = write_bytes(c.fs, output_path, File("body")),
           !.m.path_without_overlay = output_path,
           !.stats = Bump(Bump(c.stats, IF img THEN "total_images" ELSE "total_videos"),
                          IF img THEN "images_without_overlay" ELSE "videos_without_overlay"),
           !.ev = @ \cup {"direct"}]

\* Mutant: every archive is decomposed, whatever the policy
is_archive_branch_AnyPolicy(r, cfg) == r.zip

\* download.py 109: which responses are decomposed
is_archive_branch(r, cfg) == cfg.overlay_mode # "none" /\ r.zip

\* download.py 105-127: from the response to the end of the write stage, or
\* to the first await of the video compositor
write_stage(c, r, cfg) ==
    IF ~r.ok
    THEN [c EXCEPT !.raised = TRUE, !.ev = @ \cup {"fetch_error"}]
    ELSE LET c1 == [c EXCEPT !.ev = @ \cup {"body"}
                                    \cup (IF r.zip THEN {"zip"} ELSE {})] IN
         IF is_archive_branch(r, cfg)
         THEN process_zip_with_overlays(c1, r.z, cfg)
         ELSE direct_write(c1, cfg)

\* download.py 129-138: the result of download_memory, (success, bytes)
\* Mutant: the handler does not cover the exception that was raised
except_Exception_Narrow(raised) == FALSE

\* download.py 136: except Exception handles whatever the try block raised
except_Exception(raised) == raised

task_result(c, length) ==
    LET c1 == IF c.raised THEN c ELSE call_apply_metadata(c) IN
    [c |-> [c1 EXCEPT !.raised = FALSE],
     escaped |-> c1.raised /\ ~except_Exception(c1.raised),
     success |-> ~c1.raised,
     bytes |-> IF c1.raised THEN 0 ELSE length]

\* Mutant: the counter is written from a value read before the other tasks'
\* updates
update_stats_Stale(s, success, bytes) ==
    [s EXCEPT ![IF success THEN "downloaded" ELSE "failed"] = Stats[IF success THEN "downloaded" ELSE "failed"] + 1,
              !.mb = Stats.mb + bytes]

\* download.py 76-81: _process_and_update after download_memory returned
update_stats(s, success, bytes) ==
    [Bump(s, IF success THEN "downloaded" ELSE "failed") EXCEPT !.mb = @ + bytes]


\* ------------------------------------------------------ main.py: the loader
\* A raw export: the capture instant (UTC), the media kind and the location
\* of each record.  The instants are paired (records 1 and 2 share one,
\* record 3 has its own, ...) or all distinct; in a paired export record 2
\* may have been captured in another zone than record 1.  The records of an
\* export are images, except that the last one may be a video (the tasks of
\* different items do not depend on the order of the list); the exports with
\* zones or with distinct instants are exports of images.
DateSchemes == {"paired", "paired-zones", "distinct"}

\* How many of the records are images, and how their instants are drawn
ExportShapes ==
    { sh \in ((NumItems - 1)..NumItems) \X DateSchemes :
        sh[2] = "paired" \/ sh[1] = NumItems }

RawExports ==
    { [i \in Items |->
         [date |-> IF sh[2] = "distinct" THEN i ELSE (i + 1) \div 2,
          media_type |-> IF i <= sh[1] THEN "image" ELSE "video",
          location |-> IF sh[2] = "paired-zones" /\ i = 2 THEN "east" ELSE "none"]] :
        sh \in ExportShapes }

\* main.py 21-31: occurrence is the rank among the records read so far that
\* have the same str(memory.date)
load_memories(raw) ==
    LET loaded == [i \in Items |->
                     Memory(raw[i].date, raw[i].media_type, raw[i].location)]
    IN  [i \in Items |->
            [loaded[i] EXCEPT
                !.occurrence =
                    Cardinality({j \in 1..i : str(loaded[j].date) = str(loaded[i].date)})]]

\* ------------------------------------------------- download.py: the scanner
\* Mutant: the overlay marker is left in the scanned names
build_existing_files_set_KeepsMarker(fs) == { Stem(p.name) : p \in DOMAIN fs }

build_existing_files_set(fs) ==
    { ReplaceOverlayed(Stem(p.name)) : p \in DOMAIN fs }

base_name(m) == ReplaceOverlayed(RsplitDot(get_filename(m, FALSE, m.occurrence)))

already_present(m, existing_files) == base_name(m) \in existing_files

\* Mutant: the filtered items are not counted as skipped
filter_memories_to_download_Uncounted(mems, s, fs, cfg) ==
    IF ~cfg.skip_existing
    THEN [to_download |-> [i \in Items |-> i], stats |-> s]
    ELSE LET existing_files == build_existing_files_set(fs)
             keep == SelectSeq([i \in Items |-> i],
                               LAMBDA i : ~already_present(mems[i], existing_files))
         IN  [to_download |-> keep, stats |-> s]

\* download.py 33-65: the items to download, in order, and the skipped count
filter_memories_to_download(mems, s, fs, cfg) ==
    IF ~cfg.skip_existing
    THEN [to_download |-> [i \in Items |-> i], stats |-> s]
    ELSE LET existing_files == build_existing_files_set(fs)
             keep == SelectSeq([i \in Items |-> i],
                               LAMBDA i : ~already_present(mems[i], existing_files))
         IN  [to_download |-> keep,
              stats |-> [s EXCEPT !.skipped = @ + (NumItems - Len(keep))]]

\* Mutant: only the output root is created
required_dirs_RootOnly(cfg) == {output_dir}

\* download.py 144-150
required_dirs(cfg) ==
    {output_dir}
    \cup (IF cfg.overlay_mode = "both" /\ cfg.overlay_naming = "separate-folders"
          THEN {output_dir \o <<WITH_OVERLAYS_DIR>>, output_dir \o <<WITHOUT_OVERLAYS_DIR>>}
          ELSE {})

\* -------------------------------------------------------------------- state
VARIABLES
    config,       \* the process-wide configuration (config.py), set by args.py
    memories,     \* the loaded items, with their result paths
    seed,         \* per item, the file of an earlier run present at the start
    fs,           \* the files of the output tree
    dirs,         \* the directories of the output tree
    stats,        \* the run statistics
    semaphore,    \* the value of the admission semaphore
    phase,        \* where download_all is
    to_download,  \* the filtered items
    pc,           \* where each item's task is
    local,        \* the archive a suspended video compositor works on
    progress,     \* the progress bar's count
    summaries,    \* how many times the summary was printed
    obs           \* per item, what its task has done so far

vars == <<config, memories, seed, fs, dirs, stats, semaphore, phase,
          to_download, pc, local, progress, summaries, obs>>

\* The counters of the media breakdown
Counters ==
    {"overlay_failed", "total_images", "total_videos",
     "images_with_overlay", "images_without_overlay",
     "videos_with_overlay", "videos_without_overlay",
     "extra_images_without_overlay", "extra_videos_without_overlay"}

\* counted[k] is by how much the item's task has incremented counter k,
\* fetched the length of the body its GET returned, bytes the byte count its
\* task reported
Obs0 ==
    [posts |-> 0, gets |-> 0, ffmpeg |-> 0, acquired |-> 0, released |-> 0,
     counted |-> [k \in Counters |-> 0], ev |-> {}, archive |-> NoArchive,
     outcome |-> "none", fetched |-> 0, bytes |-> 0]

\* The files an earlier run may have left for an item in the output root
SeedKinds == {"none", "plain", "overlayed"}

SeedPath(m, kind) == Join(output_dir, get_filename(m, kind = "overlayed", m.occurrence))

SeededFs(mems, sd) ==
    [p \in { SeedPath(mems[i], sd[i]) : i \in {j \in Items : sd[j] # "none"} }
        |-> [data |-> "old", mtime |-> 0]]

\* The output trees the runs start from: empty, the first item's composite
\* present, or every item's plain file present.
Seeds ==
    { sd \in [Items -> SeedKinds] :
        \/ \A i \in Items : sd[i] = "none"
        \/ sd[1] = "overlayed" /\ \A i \in Items \ {1} : sd[i] = "none"
        \/ \A i \in Items : sd[i] = "plain" }

\* The runs of the model: a configuration and the tree it starts from.  The
\* copies of the overlays are drawn under the default naming, and the tree
\* with every item's file under skip-existing.
Starts ==
    { st \in setup_config \X Seeds :
        /\ st[1].save_overlays_only => st[1].overlay_naming = "separate-folders"
        /\ (\A i \in Items : st[2][i] = "plain") => st[1].skip_existing }

Init ==
    /\ \E st \in Starts : config = st[1] /\ seed = st[2]
    /\ \E raw \in RawExports : memories = load_memories(raw)
    /\ fs = SeededFs(memories, seed)
    /\ dirs = {}
    /\ stats = Stats
    /\ semaphore = 0
    /\ phase = "start"
    /\ to_download = <<>>
    /\ pc = [i \in Items |-> "none"]
    /\ local = [i \in Items |-> NoArchive]
    /\ progress = 0
    /\ summaries = 0
    /\ obs = [i \in Items |-> Obs0]

InList(i, seq) == \E k \in 1..Len(seq) : seq[k] = i

\* download.py 144-173: download_all up to the gather
download_all_begin ==
    /\ phase = "start"
    /\ LET f == filter_memories_to_download(memories, Stats, fs, config) IN
       /\ dirs' = dirs \cup required_dirs(config)
       /\ semaphore' = config.max_concurrent
       /\ stats' = f.stats
       /\ to_download' = f.to_download
       /\ phase' = IF f.to_download = <<>> THEN "returned" ELSE "gather"
       /\ pc' = [i \in Items |-> IF InList(i, f.to_download) THEN "created" ELSE "skipped"]
    /\ UNCHANGED <<config, memories, seed, fs, local, progress, summaries, obs>>

\* The task's context
TaskCtx(i) == Ctx(fs, memories[i], stats)

Observe(i, c, outcome) ==
    [obs EXCEPT ![i].ev = @ \cup c.ev,
                ![i].counted = [k \in Counters |-> @[k] + (c.stats[k] - stats[k])],
                ![i].outcome = outcome,
                ![i].released = IF outcome = "none" THEN @ ELSE @ + 1]

\* Mutant: tasks enter the stage without waiting for a permit
CanEnter_Ungated(sem) == TRUE

\* Mutant: the permit is not given back
release_Leaks(sem) == sem

\* asyncio.Semaphore as download.py 92 uses it: entering the async with
\* takes a permit when there is one, leaving it gives the permit back
CanEnter(sem) == sem > 0

acquire(sem) == sem - 1

release(sem) == sem + 1

\* download.py 92 (exit of the async with), 129-138 and 76-86: the item
\* leaves the gated stage and its outcome is counted.  An exception that
\* download_memory did not handle would leave _process_and_update and the
\* gather of download_all.
Complete(i, c, length, z) ==
    LET res == task_result(c, length) IN
    /\ fs' = res.c.fs
    /\ memories' = [memories EXCEPT ![i] = res.c.m]
    /\ stats' = IF res.escaped THEN res.c.stats
                ELSE update_stats(res.c.stats, res.success, res.bytes)
    /\ semaphore' = release(semaphore)
    /\ progress' = IF res.escaped THEN progress ELSE progress + 1
    /\ phase' = IF res.escaped THEN "aborted" ELSE phase
    /\ pc' = [pc EXCEPT ![i] = "done"]
    /\ local' = [local EXCEPT ![i] = NoArchive]
    /\ obs' = [Observe(i, res.c, IF res.escaped THEN "escaped"
                                 ELSE IF res.success THEN "success" ELSE "failure")
                 EXCEPT ![i].archive = z,
                        ![i].fetched = length,
                        ![i].bytes = res.bytes]

\* Mutant: the direct reference is never used
uses_media_download_url_Never(cfg) == FALSE

\* download.py 95-100: under with and both the direct content-delivery
\* reference is the URL; otherwise the URL is asked for with a POST
uses_media_download_url(cfg) == cfg.overlay_mode \in {"with", "both"}

\* download.py 92-104: admission, URL choice, and the request that is sent
Acquire(i) ==
    /\ phase = "gather"
    /\ pc[i] = "created"
    /\ CanEnter(semaphore)
    /\ semaphore' = acquire(semaphore)
    /\ pc' = [pc EXCEPT ![i] = IF uses_media_download_url(config)
                                THEN "get" ELSE "post"]
    /\ obs' = [obs EXCEPT ![i].acquired = @ + 1,
                          ![i].gets = IF uses_media_download_url(config)
                                      THEN @ + 1 ELSE @,
                          ![i].posts = IF uses_media_download_url(config)
                                       THEN @ ELSE @ + 1]
    /\ UNCHANGED <<config, memories, seed, fs, dirs, stats, phase, to_download,
                   local, progress, summaries>>

\* memory.py 168-176 and download.py 100-104: the indirection exchange
\* returned; on success the GET is sent
PostDone(i, ok) ==
    /\ phase = "gather"
    /\ pc[i] = "post"
    /\ IF ok
       THEN /\ pc' = [pc EXCEPT ![i] = "get"]
            /\ obs' = [obs EXCEPT ![i].gets = @ + 1]
            /\ UNCHANGED <<memories, fs, stats, semaphore, local, progress, phase>>
       ELSE Complete(i, [TaskCtx(i) EXCEPT !.raised = TRUE,
                                           !.ev = {"resolve_error"}], 0, NoArchive)
    /\ UNCHANGED <<config, seed, dirs, to_download, summaries>>

\* download.py 104-138: the GET returned
GetDone(i, r) ==
    /\ phase = "gather"
    /\ pc[i] = "get"
    /\ LET c == write_stage(TaskCtx(i), r, config) IN
       IF c.pending
       THEN /\ pc' = [pc EXCEPT ![i] = "ffmpeg1"]
            /\ local' = [local EXCEPT ![i] = r.z]
            /\ memories' = [memories EXCEPT ![i] = c.m]
            /\ fs' = c.fs
            /\ stats' = c.stats
            /\ obs' = [Observe(i, c, "none") EXCEPT ![i].ffmpeg = @ + 1,
                                                    ![i].archive = r.z]
            /\ UNCHANGED <<semaphore, progress, phase>>
       ELSE Complete(i, c, ContentLength(r),
                     IF is_archive_branch(r, config) THEN r.z ELSE NoArchive)
    /\ UNCHANGED <<config, seed, dirs, to_download, summaries>>

\* overlay.py 61-62 and 84-111, then the rest of process_zip_with_overlays
\* and of download_memory: the external process returned
FfmpegDone(i, rc) ==
    /\ phase = "gather"
    /\ pc[i] \in {"ffmpeg1", "ffmpeg2"}
    /\ LET c == ffmpeg_returned(TaskCtx(i), local[i], config,
                                IF pc[i] = "ffmpeg1" THEN 1 ELSE 2, rc) IN
       IF c.pending
       THEN /\ pc' = [pc EXCEPT ![i] = "ffmpeg2"]
            /\ memories' = [memories EXCEPT ![i] = c.m]
            /\ fs' = c.fs
            /\ stats' = c.stats
            /\ obs' = [Observe(i, c, "none") EXCEPT ![i].ffmpeg = @ + 1]
            /\ UNCHANGED <<semaphore, progress, local, phase>>
       ELSE Complete(i, process_zip_end(c, local[i], config),
                     ContentLength([zip |-> TRUE]), local[i])
    /\ UNCHANGED <<config, seed, dirs, to_download, summaries>>

AllDone == \A i \in Items : pc[i] \in {"done", "skipped"}

\* Mutant: the summary does not wait for the gather
print_summary_Early ==
    /\ phase = "gather"
    /\ phase' = "summarized"
    /\ summaries' = summaries + 1
    /\ UNCHANGED <<config, memories, seed, fs, dirs, stats, semaphore,
                   to_download, pc, local, progress, obs>>

\* download.py 171-178: the gather returned; the summary is printed
print_summary ==
    /\ phase = "gather"
    /\ AllDone
    /\ phase' = "summarized"
    /\ summaries' = summaries + 1
    /\ UNCHANGED <<config, memories, seed, fs, dirs, stats, semaphore,
                   to_download, pc, local, progress, obs>>

\* The process is killed while a task writes a file: Path.write_bytes opens
\* its target for writing and then writes, so the target is left holding a
\* part of the data.
\* download.py 115 writes the body straight to its destination.  One task
\* runs at a time, so one of the tasks that wait for their response is the
\* one writing: the first of them.
kill_during_direct_write(i) ==
    /\ phase = "gather"
    /\ pc[i] = "get"
    /\ \A j \in Items : j < i => pc[j] # "get"
    /\ \E r \in Responses : r.ok /\ ~is_archive_branch(r, config)
    /\ fs' = write_bytes(fs, direct_output_path(memories[i], config), File("partial"))
    /\ phase' = "killed"
    /\ UNCHANGED <<config, memories, seed, dirs, stats, semaphore, to_download,
                   pc, local, progress, summaries, obs>>

\* overlay.py 85 and 99 copy the composite from the temporary directory to
\* its destination with write_bytes.
kill_during_composite_write(i) ==
    /\ phase = "gather"
    /\ pc[i] \in {"ffmpeg1", "ffmpeg2"}
    /\ fs' = write_bytes(fs, memories[i].path_with_overlay, File("partial"))
    /\ phase' = "killed"
    /\ UNCHANGED <<config, memories, seed, dirs, stats, semaphore, to_download,
                   pc, local, progress, summaries, obs>>

Next ==
    \/ download_all_begin
    \/ \E i \in Items : Acquire(i)
    \/ \E i \in Items, ok \in BOOLEAN : PostDone(i, ok)
    \/ \E i \in Items, r \in Responses : GetDone(i, r)
    \/ \E i \in Items, rc \in {0, 1} : FfmpegDone(i, rc)
    \/ \E i \in Items : kill_during_direct_write(i)
    \/ \E i \in Items : kill_during_composite_write(i)
    \/ print_summary

Spec == Init /\ [][Next]_vars


\* ------------------------------------------------------------------ claims
InStage(i) == pc[i] \in {"post", "get", "ffmpeg1", "ffmpeg2"}

InFlight == Cardinality({i \in Items : InStage(i)})

\* C1: in every reachable state at most max_concurrent tasks are between
\* their admission and their release (URL resolution, fetch, write or
\* decomposition, metadata), however many items were dispatched.
C1_ConcurrencyBound == InFlight <= config.max_concurrent

\* More items were dispatched than there are permits: one holds the only
\* permit and another one waits.
C1_Witness ==
    /\ config.max_concurrent = 1
    /\ InFlight = 1
    /\ \E j \in Items : pc[j] = "created"

\* C2: a task holds one permit exactly while it is in the stage and has
\* given it back exactly once when it is done, whatever ended it; the permits
\* outside the stage are always the ones the semaphore holds, so after the
\* last task all max_concurrent permits are back.
C2_PermitReleasedOnce ==
    /\ \A i \in Items :
        /\ obs[i].acquired = (IF InStage(i) \/ pc[i] = "done" THEN 1 ELSE 0)
        /\ obs[i].released = (IF pc[i] = "done" THEN 1 ELSE 0)
    /\ phase # "start" => semaphore = config.max_concurrent - InFlight
    /\ phase = "summarized" => semaphore = config.max_concurrent

C2_Witness ==
    /\ phase = "summarized"
    /\ semaphore = config.max_concurrent
    /\ \E i \in Items :
        /\ pc[i] = "done"
        /\ "fetch_error" \in obs[i].ev
        /\ obs[i].released = 1

\* C3: the step that ends a task, also with an error, gives that item an
\* outcome, leaves the batch running and touches no other task; when the
\* batch is over every dispatched item has its own outcome.
C3_FailureIsolated ==
    /\ [](phase = "summarized" =>
            \A i \in Items : pc[i] = "done" => obs[i].outcome \in {"success", "failure"})
    /\ [][\A i \in Items :
            (pc[i] # "done" /\ pc'[i] = "done") =>
                /\ obs'[i].outcome \in {"success", "failure"}
                /\ phase' = phase
                /\ \A j \in Items \ {i} :
                    /\ pc'[j] = pc[j]
                    /\ memories'[j] = memories[j]
                    /\ obs'[j] = obs[j]]_vars

\* One item failed with an error and a sibling still wrote its file and
\* reached its outcome.
C3_Witness ==
    /\ phase = "summarized"
    /\ \E i, j \in Items :
        /\ i # j
        /\ obs[i].outcome = "failure"
        /\ obs[i].ev \cap {"resolve_error", "fetch_error", "no_main"} # {}
        /\ pc[j] = "done"
        /\ obs[j].ev \cap {"direct", "decomposed"} # {}

\* C4: every dispatched task reaches an outcome and the batch its summary:
\* while the gather is waiting some step is always possible (no task is
\* left waiting for admission for ever).
C4_BatchNeverStuck == phase = "gather" => ENABLED Next

\* The canonical base name of an item: its UTC timestamp and its occurrence
\* suffix
CanonicalBase(m) ==
    <<strftime(astimezone(m.date, timezone_utc)), VersionToken(m.occurrence)>>

\* The items whose canonical base name is the one of a file that was in the
\* output tree at the start
Seeded ==
    {i \in Items :
        \E j \in Items :
            seed[j] # "none" /\ CanonicalBase(memories[j]) = CanonicalBase(memories[i])}

\* C5: with skip-existing, an item whose base name is in the output tree at
\* the start is never resolved nor fetched, and the skipped counter is the
\* number of these items.
C5_SkipExisting ==
    config.skip_existing =>
        /\ \A i \in Seeded : obs[i].posts = 0 /\ obs[i].gets = 0 /\ ~InStage(i)
        /\ phase # "start" => stats.skipped = Cardinality(Seeded)

\* The file found is the overlaid rendition of the first item; the other
\* item is fetched.
C5_Witness ==
    /\ config.skip_existing
    /\ phase = "summarized"
    /\ seed[1] = "overlayed"
    /\ stats.skipped = 1
    /\ \E j \in Items : obs[j].gets = 1

\* The destination of the overlay-free rendition of an item
WithoutOverlayDestination(m) ==
    IF config.overlay_mode = "both"
    THEN no_overlay_memory_path(m, config)
    ELSE Join(output_dir, get_filename(m, FALSE, m.occurrence))

\* C6: under with and both, for images and videos, once an item whose
\* compositing failed is done, an overlay-free file holding the primary is at
\* its without-overlay destination and overlay_failed was incremented once
\* for it.
C6_FallbackAfterCompositeFailure ==
    \A i \in Items :
        (pc[i] = "done" /\ "composite_failed" \in obs[i].ev) =>
            /\ Exists(fs, WithoutOverlayDestination(memories[i]))
            /\ fs[WithoutOverlayDestination(memories[i])].data = "main"
            /\ obs[i].counted["overlay_failed"] = 1

ImageItem(i) == memories[i].media_type = "image"

\* The counters one item of policy both increments: its kind's total, its
\* kind's with-overlay counter and its kind's extra counter, once each.
CountedBothRenditions(i) ==
    LET expected ==
            IF ImageItem(i)
            THEN {"total_images", "images_with_overlay", "extra_images_without_overlay"}
            ELSE {"total_videos", "videos_with_overlay", "extra_videos_without_overlay"}
    IN  \A k \in Counters \ {"overlay_failed"} :
            obs[i].counted[k] = (IF k \in expected THEN 1 ELSE 0)

TwoResultPaths(i) ==
    /\ memories[i].path_with_overlay # None
    /\ memories[i].path_without_overlay # None
    /\ memories[i].path_with_overlay # memories[i].path_without_overlay

\* C7 as stated: under both, every item whose write stage succeeded has two
\* result paths and counted one total and two variants.
C7_Original ==
    \A i \in Items :
        (config.overlay_mode = "both" /\ pc[i] = "done"
            /\ obs[i].ev \cap {"direct", "decomposed"} # {}
            /\ "overlay_failed" \notin obs[i].ev) =>
            TwoResultPaths(i) /\ CountedBothRenditions(i)

\* C7 (amended): under both, every item whose response was an archive that
\* the decomposer processed without an error has two result paths and
\* counted its kind's total, with-overlay and extra counters once each.
C7_BothTwoRenditions ==
    \A i \in Items :
        (config.overlay_mode = "both" /\ "decomposed" \in obs[i].ev) =>
            TwoResultPaths(i) /\ CountedBothRenditions(i)

C7_Witness ==
    /\ config.overlay_mode = "both"
    /\ \E i \in Items :
        /\ pc[i] = "done"
        /\ "decomposed" \in obs[i].ev
        /\ obs[i].archive.overlay = "good"
        /\ fs[memories[i].path_with_overlay].data = "composite"
        /\ fs[memories[i].path_without_overlay].data = "main"

\* Where the renditions of an item can be written
RenditionPaths(m) ==
    { Join(d, get_filename(m, o, m.occurrence)) :
        d \in {output_dir, output_dir \o <<WITH_OVERLAYS_DIR>>,
               output_dir \o <<WITHOUT_OVERLAYS_DIR>>},
        o \in BOOLEAN }

\* The step leaves every rendition destination of the item as it was
RenditionsUntouched(m) ==
    \A p \in RenditionPaths(m) :
        /\ Exists(fs', p) = Exists(fs, p)
        /\ Exists(fs, p) => fs'[p] = fs[p]

\* C8: processing an archive without a primary member writes no file at a
\* rendition destination of the item; afterwards its members (or the raw
\* archive) are in the error directory, overlay_failed was incremented once
\* for the item and the item has no result path.
C8_NoPrimaryMember ==
    /\ [][\A i \in Items :
            ("no_main" \notin obs[i].ev /\ "no_main" \in obs'[i].ev) =>
                RenditionsUntouched(memories[i])]_vars
    /\ [](\A i \in Items :
            "no_main" \in obs[i].ev =>
                /\ \/ \A n \in filelist(obs[i].archive, memories[i]) :
                          Exists(fs, Join(error_dir(memories[i]), n))
                   \/ Exists(fs, error_zip_path(memories[i]))
                /\ obs[i].counted["overlay_failed"] = 1
                /\ memories[i].path_with_overlay = None
                /\ memories[i].path_without_overlay = None)

C8_Witness ==
    \E i \in Items :
        /\ pc[i] = "done"
        /\ "no_main" \in obs[i].ev
        /\ Exists(fs, Join(error_dir(memories[i]), OverlayMember))

ResultPaths(i) ==
    {memories[i].path_with_overlay, memories[i].path_without_overlay} \ {None}

\* C9: in every reachable state a result path is unset or names a file that
\* has been written completely.
C9_ResultPathsNameWrittenFiles ==
    \A i \in Items : \A p \in ResultPaths(i) :
        Exists(fs, p) /\ fs[p].data \notin {"partial"}

\* C10: no destination ever holds a part of a file, also when the process is
\* killed: files get to their destination by a rename only.
C10_NoPartialFileAtDestination ==
    \A p \in DOMAIN fs : fs[p].data # "partial"

\* The instant an item was captured
CaptureInstant(i) == timestamp(memories[i].date)

\* C11: two distinct items never target the same destination: the files two
\* items of the same capture instant have written are different files, so
\* both are retained.
C11_DistinctDestinations ==
    \A i, j \in Items :
        i # j => ResultPaths(i) \cap ResultPaths(j) = {}

\* The item's compositing failed and its task is over
CompositeFailed(i) == pc[i] = "done" /\ "composite_failed" \in obs[i].ev

\* The overlay filename without the _overlayed marker, in the same directory
CanonicalNonOverlayPath(m) ==
    LET p == overlay_memory_path(m, config) IN Join(p.dir, ReplaceOverlayed(p.name))

\* C12: under policy with, after a compositing failure the with-overlay path
\* is cleared, the without-overlay path is the canonical non-overlay name,
\* and the primary has been written there.
C12_WithRepairYieldsAsset ==
    \A i \in Items :
        (config.overlay_mode = "with" /\ CompositeFailed(i)) =>
            /\ memories[i].path_with_overlay = None
            /\ memories[i].path_without_overlay = CanonicalNonOverlayPath(memories[i])
            /\ Exists(fs, CanonicalNonOverlayPath(memories[i]))
            /\ fs[CanonicalNonOverlayPath(memories[i])].data = "main"

\* No other item has the same with-overlay destination
OwnOverlayDestination(i) ==
    \A j \in Items \ {i} :
        overlay_memory_path(memories[j], config) # overlay_memory_path(memories[i], config)

WriteStageOver(i) ==
    pc[i] = "done" /\ obs[i].ev \cap {"direct", "decomposed", "overlay_failed"} # {}

\* C14: after the write stage the applier has run for each populated result
\* path of the item and for no other, and the item is counted as downloaded
\* whatever happened inside the applier.
C14_ApplierPerPathNeverFatal ==
    \A i \in Items :
        WriteStageOver(i) =>
            /\ ("applied_with" \in obs[i].ev) = (memories[i].path_with_overlay # None)
            /\ ("applied_without" \in obs[i].ev) = (memories[i].path_without_overlay # None)
            /\ obs[i].outcome = "success"

RECURSIVE SumOver(_, _)
SumOver(S, f) ==
    IF S = {}
    THEN 0
    ELSE LET x == CHOOSE y \in S : TRUE IN f[x] + SumOver(S \ {x}, f)

\* The items whose body was fetched and written without an error
WrittenItems ==
    {i \in Items : pc[i] = "done" /\ obs[i].ev \cap {"direct", "decomposed"} # {}
                                  /\ "overlay_failed" \notin obs[i].ev}

\* C15: a task reports success with the length of the fetched body or
\* failure with zero bytes, and at the summary the byte total is the sum of
\* the body lengths of the items that were fetched and written.
C15_ByteTotal ==
    /\ \A i \in Items :
            pc[i] = "done" =>
                \/ obs[i].outcome = "success" /\ obs[i].bytes = obs[i].fetched
                \/ obs[i].outcome = "failure" /\ obs[i].bytes = 0
    /\ phase = "summarized" =>
            stats.mb = SumOver(WrittenItems, [i \in Items |-> obs[i].fetched])

\* The errors of categories 1 to 3: resolution, fetch, decomposition
Categories123 == {"resolve_error", "fetch_error", "no_main"}

Incremented(i, k) ==
    LET img == ImageItem(i)
        ev  == obs[i].ev
    IN  CASE k = "total_images" -> img /\ ev \cap {"direct", "decomposed"} # {}
          [] k = "total_videos" -> ~img /\ ev \cap {"direct", "decomposed"} # {}
          [] k = "images_without_overlay" -> img /\ "direct" \in ev
          [] k = "videos_without_overlay" -> ~img /\ "direct" \in ev
          [] k = "images_with_overlay" -> img /\ "decomposed" \in ev
          [] k = "videos_with_overlay" -> ~img /\ "decomposed" \in ev
          [] k = "extra_images_without_overlay" ->
                img /\ "decomposed" \in ev /\ config.overlay_mode = "both"
          [] k = "extra_videos_without_overlay" ->
                ~img /\ "decomposed" \in ev /\ config.overlay_mode = "both"
          [] k = "overlay_failed" -> "overlay_failed" \in ev
          [] k = "downloaded" -> obs[i].outcome = "success"
          [] k = "failed" -> obs[i].outcome = "failure"

\* C17: under every interleaving of the tasks, every counter of the run
\* statistics is the number of increments the tasks have performed on it, and
\* the progress count is the number of tasks that have ended.
C17_NoLostUpdate ==
    /\ \A k \in Counters \cup {"downloaded", "failed"} :
            stats[k] = Cardinality({i \in Items : Incremented(i, k)})
    /\ progress = Cardinality({i \in Items : pc[i] = "done"})

\* Two tasks could be in the stage together and both have incremented the
\* same counters.
C17_Witness ==
    /\ config.max_concurrent = 2
    /\ phase = "summarized"
    /\ stats.total_images = 2
    /\ stats.images_with_overlay = 2
    /\ stats.failed = 2
    /\ progress = 2

\* An exception was raised inside the decomposer for the item: the archive
\* did not parse, had no primary member, its primary did not decode, or the
\* compositor failed
DecomposerRaised(i) ==
    obs[i].ev \cap {"bad_zip", "no_main", "bad_main", "composite_failed"} # {}

HasVersionSuffix(name) ==
    \E k \in 1..Len(name) : \E occurrence \in 1..4 : name[k] = VersionToken(occurrence)

\* Another item of the batch has the same capture timestamp
SharedTimestamp(i) ==
    \E j \in Items \ {i} : CaptureInstant(j) = CaptureInstant(i)

\* C19: the name under which an item's file is written carries the
\* occurrence suffix only when the item shares its capture timestamp with
\* another item of the batch.
C19_SuffixOnlyForDuplicates ==
    \A i \in Items : \A p \in ResultPaths(i) :
        HasVersionSuffix(p.name) => SharedTimestamp(i)

\* The items whose without-overlay file has been written by their task
WithoutOverlayWritten ==
    {i \in Items :
        /\ pc[i] = "done"
        /\ memories[i].path_without_overlay # None
        /\ Exists(fs, memories[i].path_without_overlay)
        /\ fs[memories[i].path_without_overlay].data \in {"body", "main"}}

\* C20: once an item whose without-overlay file was written is done, the
\* modification time of that file is the item's capture instant (UTC),
\* whatever zone the item's date is expressed in.
C20_MtimeIsCaptureInstant ==
    \A i \in WithoutOverlayWritten :
        fs[memories[i].path_without_overlay].mtime = CaptureInstant(i)

\* C21: under with and both no item ever makes an indirection exchange;
\* under none an item's fetch is always preceded by exactly one exchange, and
\* an item whose exchange failed has failed without a fetch.
C21_ResolutionByPolicy ==
    \A i \in Items :
        /\ obs[i].posts <= 1
        /\ config.overlay_mode \in {"with", "both"} => obs[i].posts = 0
        /\ config.overlay_mode = "none" =>
                /\ obs[i].gets <= obs[i].posts
                /\ (pc[i] \in {"post", "get", "done"}) = (obs[i].posts = 1)
                /\ "resolve_error" \in obs[i].ev =>
                        /\ obs[i].gets = 0
                        /\ obs[i].outcome = "failure"

\* Under none one item was fetched after its exchange and another one
\* failed in its exchange.
C21_Witness ==
    /\ config.overlay_mode = "none"
    /\ \E i, j \in Items :
        /\ obs[i].posts = 1 /\ obs[i].gets = 1 /\ "direct" \in obs[i].ev
        /\ "resolve_error" \in obs[j].ev /\ obs[j].posts = 1 /\ obs[j].gets = 0

\* The counters an item written directly increments: its kind's total and
\* its kind's without-overlay counter, once each
CountedDirect(i) ==
    LET expected ==
            IF ImageItem(i)
            THEN {"total_images", "images_without_overlay"}
            ELSE {"total_videos", "videos_without_overlay"}
    IN  \A k \in Counters :
            obs[i].counted[k] = (IF k \in expected THEN 1 ELSE 0)

\* C22: the decomposer is invoked for a fetched body exactly when the policy
\* is not none and the body is an archive; any other body is written
\* directly: only the without-overlay result path is set, to the file that
\* was written, and only the kind's total and without-overlay counters are
\* incremented.
C22_BranchOnPolicyAndType ==
    \A i \in Items :
        "body" \in obs[i].ev =>
            /\ ("decomposer" \in obs[i].ev) =
                    (config.overlay_mode # "none" /\ "zip" \in obs[i].ev)
            /\ ("direct" \in obs[i].ev) = ("decomposer" \notin obs[i].ev)
            /\ "direct" \in obs[i].ev =>
                    /\ memories[i].path_with_overlay = None
                    /\ memories[i].path_without_overlay =
                            direct_output_path(memories[i], config)
                    /\ Exists(fs, memories[i].path_without_overlay)
                    /\ CountedDirect(i)

\* Under a compositing policy one item's archive went to the decomposer and
\* another item's plain body was written directly.
C22_Witness ==
    /\ config.overlay_mode = "both"
    /\ \E i, j \in Items :
        /\ "zip" \in obs[i].ev /\ "decomposed" \in obs[i].ev
        /\ "zip" \notin obs[j].ev /\ "direct" \in obs[j].ev
        /\ fs[memories[j].path_without_overlay].data = "body"

\* C23: nothing is retried at the item layer: a task sends at most one POST
\* and at most one GET, and a task whose resolution or fetch failed is over.
\* The video compositor starts the external process at most twice for one
\* video, the second time only after the first exited non-zero and the
\* overlay was re-encoded.
C23_NoRetryButCompositor ==
    \A i \in Items :
        /\ obs[i].posts <= 1
        /\ obs[i].gets <= 1
        /\ "resolve_error" \in obs[i].ev => pc[i] = "done" /\ obs[i].gets = 0
        /\ "fetch_error" \in obs[i].ev => pc[i] = "done" /\ obs[i].gets = 1
        /\ obs[i].ffmpeg <= 2
        /\ obs[i].ffmpeg > 0 => ~ImageItem(i) /\ "decomposer" \in obs[i].ev
        /\ (obs[i].ffmpeg = 2) = ("first_exit_nonzero" \in obs[i].ev)
        /\ obs[i].ffmpeg = 2 => obs[i].archive.overlay = "good"

\* One video was composited at the second attempt; another item's fetch
\* failed and its task ended after its single GET.
C23_Witness ==
    \E i, j \in Items :
        /\ obs[i].ffmpeg = 2 /\ "decomposed" \in obs[i].ev
        /\ "fetch_error" \in obs[j].ev /\ obs[j].gets = 1 /\ pc[j] = "done"

\* C24 as stated: every run of the batch scheduler that has ended has
\* rendered the final summary exactly once.
C24_Original == phase \in {"returned", "summarized"} => summaries = 1

\* C24: a run renders the final summary at most once, and only when every
\* dispatched task has completed and none is in flight; a run that returns
\* has rendered it exactly once when it dispatched a task, and not at all
\* when the filter left nothing to dispatch.
C24_SummaryAfterLastTask ==
    /\ summaries <= 1
    /\ summaries = 1 =>
            /\ phase = "summarized"
            /\ InFlight = 0
            /\ \A i \in Items : pc[i] \in {"done", "skipped"}
    /\ phase = "summarized" => summaries = 1 /\ to_download # <<>>
    /\ phase = "returned" => summaries = 0 /\ to_download = <<>>

\* The summary was rendered after two tasks had run at the same time
C24_Witness ==
    /\ phase = "summarized"
    /\ summaries = 1
    /\ \A i \in Items : pc[i] = "done" /\ obs[i].acquired = 1

\* C25: under both, the two renditions of a decomposed item are, with
\* separate folders, in the with_overlays and without_overlays
\* subdirectories under identical filenames, and, with a single folder, in
\* the output directory under names that differ only by the _overlayed
\* suffix.
C25_RenditionNaming ==
    \A i \in Items :
        (config.overlay_mode = "both" /\ "decomposed" \in obs[i].ev) =>
            LET w == memories[i].path_with_overlay
                n == memories[i].path_without_overlay
            IN  IF config.overlay_naming = "separate-folders"
                THEN /\ w.dir = output_dir \o <<WITH_OVERLAYS_DIR>>
                     /\ n.dir = output_dir \o <<WITHOUT_OVERLAYS_DIR>>
                     /\ w.name = n.name
                ELSE /\ w.dir = output_dir
                     /\ n.dir = output_dir
                     /\ w.name # n.name
                     /\ ReplaceOverlayed(w.name) = n.name

\* What the file of a rendition holds, whole or cut short
RenditionData == {"body", "main", "composite", "partial"}

\* The rendition files a step creates or changes
RenditionsWritten ==
    {p \in DOMAIN fs' :
        /\ fs'[p].data \in RenditionData
        /\ ~Exists(fs, p) \/ fs'[p] # fs[p]}

\* C26: once a task exists, the output root exists and, under both with
\* separate folders, so do the with_overlays and without_overlays
\* subdirectories; no step writes a rendition into a directory that does
\* not exist.
C26_DirectoriesBeforeDispatch ==
    /\ []((\E i \in Items : pc[i] # "none") =>
            /\ phase # "start"
            /\ required_dirs(config) \subseteq dirs
            /\ output_dir \in dirs
            /\ (config.overlay_mode = "both"
                    /\ config.overlay_naming = "separate-folders") =>
                   /\ output_dir \o <<WITH_OVERLAYS_DIR>> \in dirs
                   /\ output_dir \o <<WITHOUT_OVERLAYS_DIR>> \in dirs)
    /\ [][\A p \in RenditionsWritten : p.dir \in dirs]_vars

\* Under both with separate folders one item's two renditions are in the
\* two subdirectories and another item's body was written directly.
C26_Witness ==
    /\ config.overlay_mode = "both"
    /\ config.overlay_naming = "separate-folders"
    /\ \E i, j \in Items :
        /\ "decomposed" \in obs[i].ev
        /\ memories[i].path_with_overlay.dir = output_dir \o <<WITH_OVERLAYS_DIR>>
        /\ Exists(fs, memories[i].path_with_overlay)
        /\ Exists(fs, memories[i].path_without_overlay)
        /\ "direct" \in obs[j].ev
        /\ memories[j].path_without_overlay.dir = output_dir \o <<WITHOUT_OVERLAYS_DIR>>

\* The step ends the task of item i
Ends(i) == pc[i] # "done" /\ pc'[i] = "done"

\* C27: the step that ends a dispatched task increments exactly one of
\* downloaded and failed, by one, and the progress count by one, and no
\* other step changes them; when the run has ended, downloaded + failed is
\* the number of dispatched items and downloaded + failed + skipped the
\* number of input items.
C27_OutcomeAccounting ==
    /\ [][\A i \in Items : Ends(i) =>
              /\ i \in {to_download[n] : n \in 1..Len(to_download)}
              /\ progress' = progress + 1
              /\ \/ /\ stats'.downloaded = stats.downloaded + 1
                    /\ stats'.failed = stats.failed
                 \/ /\ stats'.downloaded = stats.downloaded
                    /\ stats'.failed = stats.failed + 1]_vars
    /\ [][(\A i \in Items : ~Ends(i)) =>
              /\ progress' = progress
              /\ stats'.downloaded = stats.downloaded
              /\ stats'.failed = stats.failed]_vars
    /\ [](phase \in {"returned", "summarized"} =>
              /\ stats.downloaded + stats.failed = Len(to_download)
              /\ stats.downloaded + stats.failed + stats.skipped = NumItems
              /\ progress = Len(to_download))

\* A run ended with one item skipped and the other dispatched and counted
C27_Witness ==
    /\ phase = "summarized"
    /\ stats.skipped = 1
    /\ stats.downloaded + stats.failed = 1
    /\ progress = 1

\* C28: in every state between two steps of the tasks the total of each
\* kind is the sum of its with-overlay and without-overlay counters, and
\* the extra-without-overlay counter of a kind is at most its with-overlay
\* counter.
C28_BreakdownSums ==
    /\ stats.total_images = stats.images_with_overlay + stats.images_without_overlay
    /\ stats.total_videos = stats.videos_with_overlay + stats.videos_without_overlay
    /\ stats.extra_images_without_overlay <= stats.images_with_overlay
    /\ stats.extra_videos_without_overlay <= stats.videos_with_overlay

\* Under both, one image was decomposed and the other written directly
C28_Witness ==
    /\ config.overlay_mode = "both"
    /\ stats.total_images = 2
    /\ stats.images_with_overlay = 1
    /\ stats.images_without_overlay = 1
    /\ stats.extra_images_without_overlay = 1

\* C29: the scanner and the filter, applied to the output tree as a run has
\* left it, find an item already present only if a media rendition of it
\* exists in the tree: error artifacts, overlay copies and temporary files
\* do not make a later run skip an item that has no rendition.
C29_SkipNeedsRendition ==
    \A i \in Items :
        already_present(memories[i], build_existing_files_set(fs)) =>
            \E p \in RenditionPaths(memories[i]) : Exists(fs, p)

\* C30: overlay_failed is incremented for an item only if its with-overlay
\* rendition was not produced: an item whose with-overlay rendition the
\* decomposer has written and counted (total and with-overlay) is never
\* also counted as overlay-failed.
C30_FailedOnlyWithoutComposite ==
    \A i \in Items :
        ("decomposed" \in obs[i].ev
            /\ obs[i].counted[IF ImageItem(i) THEN "images_with_overlay"
                               ELSE "videos_with_overlay"] = 1)
        => obs[i].counted["overlay_failed"] = 0

=============================================================================
